---- MODULE Spec2Model ----
(***************************************************************************)
(* Model of the contacts backend: GoogleContactsService (cache-backed      *)
(* fetch with fallback, Redis cache layer, People-API record normalizer).  *)
(*                                                                         *)
(* Strings are sequences of segments: a segment is a run of characters     *)
(* without ' ' or '+', and each ' ' and each '+' is a segment of its own,  *)
(* so "Ada Lovelace" is <<"Ada", " ", "Lovelace">> and "" is <<>>.         *)
(***************************************************************************)
EXTENDS Integers, Sequences, FiniteSets, TLC

(***************************************************************************)
(* JSON values of the People API payload.  A key of a mapping is either    *)
(* missing (Absent), null (Null) or a string.                              *)
(***************************************************************************)
Str(s) == [t |-> "str", v |-> s]
Absent == [t |-> "absent", v |-> <<>>]
Null == [t |-> "null", v |-> <<>>]

\* dict.get(key, default): the default only replaces a missing key
DictGet(val, default) == IF val.t = "absent" THEN Str(default) ELSE val

\* Python truthiness of a str-or-None value ("" and None are falsy)
Truthy(val) == val.t = "str" /\ val.v # <<>>

UnknownContact == <<"Unknown", " ", "Contact">>

\* str(n) for the small non-negative integers the model reaches
DecStr(n) == IF n < 10 THEN <<"0", "1", "2", "3", "4", "5", "6", "7", "8", "9">>[n + 1]
             ELSE "many"

\* name.replace(' ', '+')
ReplaceSpace(s) == [i \in 1..Len(s) |-> IF s[i] = " " THEN "+" ELSE s[i]]

\* the generated UI-Avatars reference
GeneratedAvatar(name) ==
    <<"https://ui-avatars.com/api/?name=">> \o ReplaceSpace(name)
        \o <<"&background=6366f1&color=fff&size=128">>

(***************************************************************************)
(* Record Normalizer: GoogleContactsService._transform_contacts            *)
(***************************************************************************)
\* a list element that is not a mapping (e.g. a bare string): .get raises
NotMap == [map |-> FALSE]

\* `lst[0].get(key, default) if lst else default`
FirstGet(lst, key, default) ==
    IF lst = <<>> THEN [raised |-> FALSE, val |-> Str(default)]
    ELSE IF ~lst[1].map THEN [raised |-> TRUE, val |-> Null]
    ELSE [raised |-> FALSE, val |-> DictGet(lst[1][key], default)]

\* `org = organizations[0] if organizations else {}` then org.get(key, "")
OrgGet(organizations, key) ==
    IF organizations = <<>> THEN [raised |-> FALSE, val |-> Str(<<>>)]
    ELSE IF ~organizations[1].map THEN [raised |-> TRUE, val |-> Null]
    ELSE [raised |-> FALSE, val |-> DictGet(organizations[1][key], <<>>)]

\* avatar: first photo url, else (falsy url) the generated reference; the
\* generated reference calls name.replace, which raises when name is None
Avatar(photos, name) ==
    LET a == FirstGet(photos, "url", <<>>) IN
    IF a.raised THEN a
    ELSE IF Truthy(a.val) THEN a
    ELSE IF name.t # "str" THEN [raised |-> TRUE, val |-> Null]
    ELSE [raised |-> FALSE, val |-> Str(GeneratedAvatar(name.v))]

ContactFields == {"id", "name", "email", "phone", "avatar", "company", "job",
                  "address", "notes"}

\* ContactResponse(...): every field is a required/plain str, None is rejected
ValidContact(obj) == \A f \in ContactFields : obj[f].t = "str"

\* the pydantic object, as the record of its string fields
ContactResponse(obj) == [f \in ContactFields |-> obj[f].v]

\* a filter that wants a real name and an email or phone
MeaningfulAlt(name, email, phone) ==
    name.v # UnknownContact /\ (Truthy(email) \/ Truthy(phone))

\* `if name != "Unknown Contact" or email or phone`
Meaningful(name, email, phone) ==
    name.v # UnknownContact \/ Truthy(email) \/ Truthy(phone)

\* one iteration of the loop body (lines 99-152) for entry `contact`, with n
\* records appended so far: raised (entry skipped by the except), or the
\* record and whether the filter appends it
TransformContact(contact, n) ==
    IF ~contact.map THEN [raised |-> TRUE, keep |-> FALSE, obj |-> <<>>]
    ELSE
    LET name == FirstGet(contact.names, "displayName", UnknownContact)
        email == FirstGet(contact.emailAddresses, "value", <<>>)
        phone == FirstGet(contact.phoneNumbers, "value", <<>>)
        avatar == IF name.raised THEN name ELSE Avatar(contact.photos, name.val)
        company == OrgGet(contact.organizations, "name")
        job == OrgGet(contact.organizations, "title")
        address == FirstGet(contact.addresses, "formattedValue", <<>>)
        notes == FirstGet(contact.biographies, "value", <<>>)
        obj == [id |-> DictGet(contact.resourceName, <<"contact-", DecStr(n)>>),
                name |-> name.val, email |-> email.val, phone |-> phone.val,
                avatar |-> avatar.val, company |-> company.val, job |-> job.val,
                address |-> address.val, notes |-> notes.val]
        raised == name.raised \/ email.raised \/ phone.raised \/ avatar.raised
                  \/ company.raised \/ job.raised \/ address.raised
                  \/ notes.raised \/ ~ValidContact(obj)
    IN IF raised THEN [raised |-> TRUE, keep |-> FALSE, obj |-> <<>>]
       ELSE [raised |-> FALSE,
             keep |-> Meaningful(name.val, email.val, phone.val),
             obj |-> ContactResponse(obj)]

RECURSIVE TransformFrom(_, _, _)
TransformFrom(google_contacts_, i, acc) ==
    IF i > Len(google_contacts_) THEN acc
    ELSE LET r == TransformContact(google_contacts_[i], Len(acc)) IN
         TransformFrom(google_contacts_, i + 1,
                       IF r.keep THEN Append(acc, r.obj) ELSE acc)

\* _transform_contacts(google_contacts)
TransformContacts(google_contacts_) == TransformFrom(google_contacts_, 1, <<>>)

(***************************************************************************)
(* Raw People-API entries the model feeds to the normalizer                *)
(***************************************************************************)
NameElem(displayName) == [map |-> TRUE, displayName |-> displayName]
ValueElem(value) == [map |-> TRUE, value |-> value]
PhotoElem(url) == [map |-> TRUE, url |-> url]
OrgElem(name, title) == [map |-> TRUE, name |-> name, title |-> title]
AddrElem(formattedValue) == [map |-> TRUE, formattedValue |-> formattedValue]

Raw(resourceName, names, emailAddresses, phoneNumbers, photos, organizations, addresses, biographies) ==
    [map |-> TRUE, resourceName |-> resourceName, names |-> names,
     emailAddresses |-> emailAddresses, phoneNumbers |-> phoneNumbers,
     photos |-> photos, organizations |-> organizations,
     addresses |-> addresses, biographies |-> biographies]

AdaLovelace == <<"Ada", " ", "Lovelace">>
Bob == <<"Bob">>
AdaMail == <<"ada@x.com">>
BobMail == <<"bob@x.com">>
Phone555 == <<"555">>
PhotoUrl == <<"https://img.example/p.png">>

\* the spec's first example entry
EAda == Raw(Absent, <<NameElem(Str(AdaLovelace))>>, <<ValueElem(Str(AdaMail))>>,
            <<>>, <<>>, <<>>, <<>>, <<>>)
\* the spec's second example entry
EEmpty == Raw(Absent, <<>>, <<>>, <<>>, <<>>, <<>>, <<>>, <<>>)
EFull == Raw(Str(<<"people/c1">>), <<NameElem(Str(Bob))>>, <<>>,
             <<ValueElem(Str(Phone555))>>, <<PhotoElem(Str(PhotoUrl))>>,
             <<OrgElem(Str(<<"ACME">>), Absent)>>,
             <<AddrElem(Str(<<"1", " ", "Main", " ", "St">>))>>,
             <<ValueElem(Str(<<"met", " ", "at", " ", "PyCon">>))>>)
\* an entry that is not a mapping
ENotMap == [map |-> FALSE]
\* a photos list whose first element is not a mapping
EBadPhoto == Raw(Str(<<"people/c2">>), <<NameElem(Str(AdaLovelace))>>, <<>>,
                 <<>>, <<NotMap>>, <<>>, <<>>, <<>>)
\* first names / emailAddresses element lacks the field, the second has it
ESecond == Raw(Str(<<"people/c3">>), <<NameElem(Absent), NameElem(Str(Bob))>>,
               <<ValueElem(Absent), ValueElem(Str(BobMail))>>, <<>>, <<>>, <<>>,
               <<>>, <<>>)
\* a resourceName equal to the first positional fallback identifier
EPhone == Raw(Str(<<"contact-", "0">>), <<>>, <<>>, <<ValueElem(Str(Phone555))>>,
              <<>>, <<>>, <<>>, <<>>)
ENullName == Raw(Absent, <<NameElem(Null)>>, <<ValueElem(Str(AdaMail))>>, <<>>,
                 <<>>, <<>>, <<>>, <<>>)
\* a contact literally named like the placeholder
EPlaceholder == Raw(Str(<<"people/c4">>), <<NameElem(Str(UnknownContact))>>,
                    <<>>, <<>>, <<>>, <<>>, <<>>, <<>>)
EMailOnly == Raw(Absent, <<>>, <<ValueElem(Str(BobMail))>>, <<>>, <<>>, <<>>,
                 <<>>, <<>>)
EEmptyId == Raw(Str(<<>>), <<NameElem(Str(Bob))>>, <<>>, <<>>, <<>>, <<>>, <<>>,
                <<>>)
ENullNote == Raw(Str(<<"people/c5">>), <<NameElem(Str(AdaLovelace))>>, <<>>,
                 <<>>, <<>>, <<>>, <<>>, <<ValueElem(Null)>>)
\* the first photos element has no url, the second has one
EPhotoSecond == Raw(Str(<<"people/c6">>), <<NameElem(Str(Bob))>>, <<>>, <<>>,
                    <<PhotoElem(Absent), PhotoElem(Str(PhotoUrl))>>, <<>>, <<>>,
                    <<>>)

\* the first names element has no displayName, the second has one; a phone
ESecondName == Raw(Str(<<"people/c7">>), <<NameElem(Absent), NameElem(Str(Bob))>>,
                   <<>>, <<ValueElem(Str(Phone555))>>, <<>>, <<>>, <<>>, <<>>)

RawEntries == {EAda, EEmpty, EFull, ENotMap, EBadPhoto, ESecond, EPhone,
               ENullName, EPlaceholder, EMailOnly, EEmptyId, ENullNote,
               EPhotoSecond, ESecondName}

MaxEntries == 3

RECURSIVE SeqsUpTo(_, _)
SeqsUpTo(S, n) ==
    IF n = 0 THEN {<<>>}
    ELSE LET shorter == SeqsUpTo(S, n - 1) IN
         shorter \cup {Append(q, x) : q \in {p \in shorter : Len(p) = n - 1}, x \in S}

RawPayloads == SeqsUpTo(RawEntries, MaxEntries)

\* the payloads handed to repeated calls of the normalizer
RepeatEntries == {EAda, EEmpty, EFull, ENotMap, EMailOnly}
RepeatPayloads == SeqsUpTo(RepeatEntries, MaxEntries)
OtherPayload == <<EPhone, EAda>>
MaxCalls == 3

(***************************************************************************)
(* State                                                                   *)
(***************************************************************************)
VARIABLES
    now,              \* wall clock, in seconds
    redisUp,          \* whether the Redis server answers
    redis_client,     \* GoogleContactsService.redis_client: "None" or "Client"
    store,            \* the Redis keyspace: cache key -> entry
    req,              \* the requests in flight, one record per request slot
    last_cached,      \* history: per key, what cache_contacts last stored
    google_contacts,  \* _transform_contacts: its argument
    idx,              \* _transform_contacts: position of the for loop (1-based)
    contacts,         \* _transform_contacts: the list built so far
    kept,             \* per processed entry: "kept", "dropped" or "raised"
    returned,         \* history: <<argument, result>> of each earlier call
    index,            \* the Pinecone index: namespace -> set of stored records
    vcall,            \* the last call of the vector store or of the search route
    http              \* the contacts routes: per request slot, how far the handler is

cacheVars == <<now, redisUp, redis_client, store, req, last_cached>>
normVars == <<google_contacts, idx, contacts, kept, returned>>
vecVars == <<index, vcall>>
vars == <<now, redisUp, redis_client, store, req, last_cached, google_contacts, idx, contacts, kept, returned, index, vcall, http>>

CACHE_TTL == 3600

\* model granularity of the clock, and how far it runs
TickLen == CACHE_TTL \div 2
MaxTicks == 2
MaxTime == MaxTicks * TickLen

MaxReqs == 2
Reqs == 1..MaxReqs

\* the `sub` claims the routes pass as user_id
Owners == {"u1", "u2"}
UserIds == Owners

\* one key for every owner
CacheKeyShared(user_id) == <<"contacts:", "shared">>

\* cache_key = f"contacts:{user_id}"
CacheKey(user_id) == <<"contacts:", user_id>>
Keys == {CacheKey(u) : u \in UserIds}

(***************************************************************************)
(* Redis: SETEX / GET / DEL with native per-key expiry                     *)
(***************************************************************************)
NoEntry == [present |-> FALSE, value |-> <<>>, expires_at |-> 0]

Live(entry, t) == entry.present /\ t < entry.expires_at

\* SET: the key never expires within the model's horizon
RedisSetexNoTtl(st, key, ttl, value, t) ==
    [st EXCEPT ![key] = [present |-> TRUE, value |-> value, expires_at |-> MaxTime + CACHE_TTL + 1]]

\* SETEX key ttl value at time t
RedisSetex(st, key, ttl, value, t) ==
    [st EXCEPT ![key] = [present |-> TRUE, value |-> value, expires_at |-> t + ttl]]

\* GET: None for a missing or expired key
RedisGet(st, key, t) ==
    IF Live(st[key], t) THEN [found |-> TRUE, value |-> st[key].value]
    ELSE [found |-> FALSE, value |-> <<>>]

RedisDelete(st, key) == [st EXCEPT ![key] = NoEntry]

\* active expiry: keys whose lifetime has elapsed at time t are gone
Expire(st, t) == [k \in DOMAIN st |-> IF Live(st[k], t) THEN st[k] ELSE NoEntry]

(***************************************************************************)
(* Serialisation of a cache entry                                          *)
(***************************************************************************)
\* contact.dict()
ContactDict(contact) == [f \in ContactFields |-> Str(contact[f])]

\* json.dumps(cache_data): a JSON document (well-formed text)
JsonDumps(doc) == [wellformed |-> TRUE, doc |-> doc]

\* a value under the key that json.loads rejects
Garbage == [wellformed |-> FALSE, doc |-> <<>>]

\* json.loads(cached_data)
JsonLoads(text) == [raised |-> ~text.wellformed, doc |-> text.doc]

\* datetime.utcnow().isoformat(), as the instant it denotes
IsoFormat(t) == t

\* cache_data of cache_contacts (lines 166-171)
CacheData(contacts_, t) ==
    [contacts |-> [i \in 1..Len(contacts_) |-> ContactDict(contacts_[i])],
     cached_at |-> IsoFormat(t),
     count |-> Len(contacts_)]

\* [ContactResponse(**contact) for contact in contacts_data]
FromDicts(contacts_data) ==
    [raised |-> \E i \in 1..Len(contacts_data) : ~ValidContact(contacts_data[i]),
     value |-> [i \in 1..Len(contacts_data) |-> ContactResponse(contacts_data[i])]]

(***************************************************************************)
(* Cache Layer: get_redis_client, cache_contacts, get_cached_contacts,     *)
(* clear_cache.  Each operator returns what the method returns or raises   *)
(* together with the state it leaves behind.                               *)
(***************************************************************************)
\* get_redis_client: connect and ping once, keep the handle; a failed ping
\* is logged and leaves the handle None
GetRedisClient(client, up) ==
    IF client = "None" THEN (IF up THEN "Client" ELSE "None") ELSE client

\* the try block of get_cached_contacts (lines 191-208)
GetCachedTry(user_id, client, up, st, t) ==
    LET c == GetRedisClient(client, up)
        cached_data == RedisGet(st, CacheKey(user_id), t)
        data == JsonLoads(cached_data.value)
        cs == FromDicts(data.doc.contacts)
    IN IF c = "None" THEN [raised |-> FALSE, value |-> <<>>, client |-> c]
       ELSE IF ~up THEN [raised |-> TRUE, value |-> <<>>, client |-> c]
       ELSE IF ~cached_data.found THEN [raised |-> FALSE, value |-> <<>>, client |-> c]
       ELSE IF data.raised THEN [raised |-> TRUE, value |-> <<>>, client |-> c]
       ELSE IF cs.raised THEN [raised |-> TRUE, value |-> <<>>, client |-> c]
       ELSE [raised |-> FALSE, value |-> cs.value, client |-> c]

\* get_cached_contacts without its except clause
GetCachedContactsNoExcept(user_id, client, up, st, t) ==
    GetCachedTry(user_id, client, up, st, t)

\* get_cached_contacts: `except Exception` logs and returns []
GetCachedContacts(user_id, client, up, st, t) ==
    LET b == GetCachedTry(user_id, client, up, st, t) IN
    IF b.raised THEN [raised |-> FALSE, value |-> <<>>, client |-> b.client] ELSE b

\* cache_contacts storing with SET, without a lifetime
CacheContactsTryNoExpiry(user_id, contacts_, client, up, st, t) ==
    LET c == GetRedisClient(client, up) IN
    IF c = "None" THEN [raised |-> FALSE, sent |-> FALSE, store |-> st, client |-> c]
    ELSE IF ~up THEN [raised |-> TRUE, sent |-> FALSE, store |-> st, client |-> c]
    ELSE [raised |-> FALSE, sent |-> TRUE,
          store |-> RedisSetexNoTtl(st, CacheKey(user_id), CACHE_TTL,
                                    JsonDumps(CacheData(contacts_, t)), t),
          client |-> c]

\* cache_contacts replacing the value under the key but keeping the lifetime
\* of an entry that is still there
CacheContactsTryKeepTtl(user_id, contacts_, client, up, st, t) ==
    LET c == GetRedisClient(client, up)
        k == CacheKey(user_id)
        written == RedisSetex(st, k, CACHE_TTL, JsonDumps(CacheData(contacts_, t)), t)
    IN
    IF c = "None" THEN [raised |-> FALSE, sent |-> FALSE, store |-> st, client |-> c]
    ELSE IF ~up THEN [raised |-> TRUE, sent |-> FALSE, store |-> st, client |-> c]
    ELSE [raised |-> FALSE, sent |-> TRUE,
          store |-> IF Live(st[k], t)
                    THEN [written EXCEPT ![k].expires_at = st[k].expires_at]
                    ELSE written,
          client |-> c]

\* the try block of cache_contacts (lines 161-181); `sent` tells whether the
\* SETEX command was executed
CacheContactsTry(user_id, contacts_, client, up, st, t) ==
    LET c == GetRedisClient(client, up) IN
    IF c = "None" THEN [raised |-> FALSE, sent |-> FALSE, store |-> st, client |-> c]
    ELSE IF ~up THEN [raised |-> TRUE, sent |-> FALSE, store |-> st, client |-> c]
    ELSE [raised |-> FALSE, sent |-> TRUE,
          store |-> RedisSetex(st, CacheKey(user_id), CACHE_TTL,
                               JsonDumps(CacheData(contacts_, t)), t),
          client |-> c]

\* cache_contacts without its except clause
CacheContactsNoExcept(user_id, contacts_, client, up, st, t) ==
    CacheContactsTry(user_id, contacts_, client, up, st, t)

\* cache_contacts: `except Exception` logs and returns
CacheContacts(user_id, contacts_, client, up, st, t) ==
    LET b == CacheContactsTry(user_id, contacts_, client, up, st, t) IN
    [b EXCEPT !.raised = FALSE]

\* clear_cache deleting a key that is not the owner's
ClearCacheTryWrongKey(user_id, client, up, st) ==
    LET c == GetRedisClient(client, up) IN
    IF c = "None" THEN [raised |-> FALSE, sent |-> FALSE, store |-> st, client |-> c]
    ELSE IF ~up THEN [raised |-> TRUE, sent |-> FALSE, store |-> st, client |-> c]
    ELSE [raised |-> FALSE, sent |-> TRUE, store |-> st, client |-> c]

\* the try block of clear_cache (lines 219-226); `sent` tells whether the
\* DEL command was executed
ClearCacheTry(user_id, client, up, st) ==
    LET c == GetRedisClient(client, up) IN
    IF c = "None" THEN [raised |-> FALSE, sent |-> FALSE, store |-> st, client |-> c]
    ELSE IF ~up THEN [raised |-> TRUE, sent |-> FALSE, store |-> st, client |-> c]
    ELSE [raised |-> FALSE, sent |-> TRUE,
          store |-> RedisDelete(st, CacheKey(user_id)), client |-> c]

\* clear_cache: `except Exception` logs and returns
ClearCache(user_id, client, up, st) ==
    LET b == ClearCacheTry(user_id, client, up, st) IN
    [b EXCEPT !.raised = FALSE]

(***************************************************************************)
(* Upstream: GET people/me/connections                                     *)
(***************************************************************************)
\* payloads of a 200 response in the cache model
Connections == {<<EEmpty>>, <<EAda, ENotMap, EFull>>}

\* a 200 response with a JSON object body, with or without "connections"
OkResponses ==
    {[kind |-> "ok", has |-> TRUE, connections |-> p] : p \in Connections}
        \cup {[kind |-> "ok", has |-> FALSE, connections |-> <<>>]}

\* what makes the try block raise: status 401, another non-200 status, a
\* transport error, a body that is not JSON, a JSON body of the wrong shape
FailKinds == {"http_401", "http_error", "transport", "bad_json", "bad_payload"}
FailResponses == {[kind |-> k, has |-> FALSE, connections |-> <<>>] : k \in FailKinds}

NoResponse == [kind |-> "none", has |-> FALSE, connections |-> <<>>]

\* data.get("connections", [])
DataGet(resp) == IF resp.has THEN resp.connections ELSE <<>>

(***************************************************************************)
(* Requests                                                                *)
(***************************************************************************)
NoResult == [kind |-> "none", contacts |-> <<>>]
Return(cs) == [kind |-> "return", contacts |-> cs]
Raise == [kind |-> "raise", contacts |-> <<>>]

\* a request slot: the operation and its user_id, where it stands, whether
\* its try block raised, the upstream response it got, what it returned or
\* raised, and two notes for the properties: whether it made the upstream
\* HTTP call, and whether its DEL found the key
Idle == [op |-> "idle", user_id |-> "", pc |-> "idle", failed |-> FALSE,
         response |-> NoResponse, result |-> NoResult, called |-> FALSE,
         found |-> FALSE]

\* a finished request's record is read before anything else happens
\* history of a key: nothing stored by the service (never written, deleted
\* or overwritten by foreign data), or the records and instant of the last
\* SETEX of cache_contacts; a record stays here after Redis has expired it
NotCached == [has |-> FALSE, contacts |-> <<>>, at |-> 0]
Cached(cs, t) == [has |-> TRUE, contacts |-> cs, at |-> t]

NoneDone == \A r \in Reqs : req[r].pc # "done"

(***************************************************************************)
(* GoogleContactsService.fetch_contacts, split at its suspension points:   *)
(* the HTTP request (line 60) and the exit of the `async with` block on    *)
(* an exception, before the except clause (line 80).                       *)
(***************************************************************************)
\* fetch_contacts without its cache check: every call goes upstream
FetchStartNoCheck(r, u) ==
    /\ NoneDone
    /\ req[r].pc = "idle"
    /\ req' = [req EXCEPT ![r] = [Idle EXCEPT !.op = "fetch_contacts", !.user_id = u,
                                              !.pc = "upstream", !.called = TRUE]]
    /\ UNCHANGED <<now, redisUp, redis_client, store, last_cached, normVars, vecVars>>

\* a cache check that writes back what it found, with a new lifetime
FetchStartRefreshes(r, u) ==
    /\ NoneDone
    /\ req[r].pc = "idle"
    /\ LET c == GetCachedContacts(u, redis_client, redisUp, store, now)
           w == CacheContacts(u, c.value, c.client, redisUp, store, now)
           started == [Idle EXCEPT !.op = "fetch_contacts", !.user_id = u]
       IN /\ redis_client' = c.client
          /\ store' = IF c.value # <<>> THEN w.store ELSE store
          /\ req' = [req EXCEPT ![r] =
                IF c.value # <<>>
                THEN [started EXCEPT !.pc = "done", !.result = Return(c.value)]
                ELSE [started EXCEPT !.pc = "upstream", !.called = TRUE]]
    /\ UNCHANGED <<now, redisUp, last_cached, normVars, vecVars>>

\* lines 39-60: the cache check; a hit returns, a miss sends the request
FetchStart(r, u) ==
    /\ NoneDone
    /\ req[r].pc = "idle"
    /\ LET c == IF u # ""
                THEN GetCachedContacts(u, redis_client, redisUp, store, now)
                ELSE [raised |-> FALSE, value |-> <<>>, client |-> redis_client]
           started == [Idle EXCEPT !.op = "fetch_contacts", !.user_id = u]
       IN /\ redis_client' = c.client
          /\ req' = [req EXCEPT ![r] =
                IF c.raised
                THEN [started EXCEPT !.pc = "fallback", !.failed = TRUE]
                ELSE IF c.value # <<>>
                THEN [started EXCEPT !.pc = "done", !.result = Return(c.value)]
                ELSE [started EXCEPT !.pc = "upstream", !.called = TRUE]]
    /\ UNCHANGED <<now, redisUp, store, last_cached, normVars, vecVars>>

\* lines 60-78: the response arrives; a 200 with a usable body is
\* transformed, cached and returned; anything else raises into the except
FetchUpstream(r, resp) ==
    /\ NoneDone
    /\ req[r].pc = "upstream"
    /\ LET u == req[r].user_id
           cs == TransformContacts(DataGet(resp))
           w == IF u # ""
                THEN CacheContacts(u, cs, redis_client, redisUp, store, now)
                ELSE [raised |-> FALSE, sent |-> FALSE, store |-> store,
                      client |-> redis_client]
       IN IF resp.kind = "ok"
          THEN /\ redis_client' = w.client
               /\ store' = w.store
               /\ last_cached' = IF w.sent
                                 THEN [last_cached EXCEPT ![CacheKey(u)] = Cached(cs, now)]
                                 ELSE last_cached
               /\ req' = [req EXCEPT ![r] =
                     IF w.raised
                     THEN [@ EXCEPT !.pc = "fallback", !.failed = TRUE, !.response = resp]
                     ELSE [@ EXCEPT !.pc = "done", !.response = resp,
                                    !.result = Return(cs)]]
          ELSE /\ req' = [req EXCEPT ![r] = [@ EXCEPT !.pc = "fallback", !.failed = TRUE]]
               /\ UNCHANGED <<redis_client, store, last_cached>>
    /\ UNCHANGED <<now, redisUp, normVars, vecVars, http>>

\* an except clause without the fallback read: it always raises
FetchFallbackAlwaysRaises(r) ==
    /\ NoneDone
    /\ req[r].pc = "fallback"
    /\ req' = [req EXCEPT ![r] = [@ EXCEPT !.pc = "done", !.result = Raise]]
    /\ UNCHANGED <<now, redisUp, redis_client, store, last_cached, normVars, vecVars, http>>

\* an except clause that returns whatever the fallback read gave, even []
FetchFallbackReturnsEmpty(r) ==
    /\ NoneDone
    /\ req[r].pc = "fallback"
    /\ LET c == GetCachedContacts(req[r].user_id, redis_client, redisUp, store, now) IN
       /\ redis_client' = c.client
       /\ req' = [req EXCEPT ![r] = [@ EXCEPT !.pc = "done", !.result = Return(c.value)]]
    /\ UNCHANGED <<now, redisUp, store, last_cached, normVars, vecVars, http>>

\* lines 80-90: the except clause: the fallback cache read, else the error
FetchFallback(r) ==
    /\ NoneDone
    /\ req[r].pc = "fallback"
    /\ LET u == req[r].user_id
           c == IF u # ""
                THEN GetCachedContacts(u, redis_client, redisUp, store, now)
                ELSE [raised |-> FALSE, value |-> <<>>, client |-> redis_client]
       IN /\ redis_client' = c.client
          /\ req' = [req EXCEPT ![r] =
                IF ~c.raised /\ c.value # <<>>
                THEN [@ EXCEPT !.pc = "done", !.result = Return(c.value)]
                ELSE [@ EXCEPT !.pc = "done", !.result = Raise]]
    /\ UNCHANGED <<now, redisUp, store, last_cached, normVars, vecVars, http>>

(***************************************************************************)
(* The cache routes (routes/contacts.py) call the Cache Layer directly     *)
(***************************************************************************)
\* GET /api/contacts/cached
GetCached(r, u) ==
    /\ NoneDone
    /\ req[r].pc = "idle"
    /\ LET c == GetCachedContacts(u, redis_client, redisUp, store, now) IN
       /\ redis_client' = c.client
       /\ req' = [req EXCEPT ![r] =
             [Idle EXCEPT !.op = "get_cached_contacts", !.user_id = u, !.pc = "done",
                          !.result = IF c.raised THEN Raise ELSE Return(c.value)]]
    /\ UNCHANGED <<now, redisUp, store, last_cached, normVars, vecVars>>

\* DELETE /api/contacts/cache
Clear(r, u) ==
    /\ NoneDone
    /\ req[r].pc = "idle"
    /\ LET c == ClearCache(u, redis_client, redisUp, store) IN
       /\ redis_client' = c.client
       /\ store' = c.store
       /\ last_cached' = IF c.sent
                         THEN [last_cached EXCEPT ![CacheKey(u)] = NotCached]
                         ELSE last_cached
       /\ req' = [req EXCEPT ![r] =
             [Idle EXCEPT !.op = "clear_cache", !.user_id = u, !.pc = "done",
                          !.found = c.sent /\ Live(store[CacheKey(u)], now),
                          !.result = IF c.raised THEN Raise ELSE Return(<<>>)]]
    /\ UNCHANGED <<now, redisUp, normVars, vecVars>>

\* the response has been sent
Finish(r) ==
    /\ req[r].pc = "done"
    /\ req' = [req EXCEPT ![r] = Idle]
    /\ UNCHANGED <<now, redisUp, redis_client, store, last_cached, normVars, vecVars>>

(***************************************************************************)
(* The contacts routes (routes/contacts.py) and the token check            *)
(* (auth/clerk_auth.py)                                                    *)
(***************************************************************************)
\* bearer credentials: a string jwt.decode rejects, a JWT without a `sub`
\* claim, and a JWT of each owner
Malformed == [decodes |-> FALSE, has_sub |-> FALSE, sub |-> ""]
NoSubject == [decodes |-> TRUE, has_sub |-> FALSE, sub |-> ""]
TokenOf(u) == [decodes |-> TRUE, has_sub |-> TRUE, sub |-> u]
Tokens == {Malformed, NoSubject} \cup {TokenOf(u) : u \in Owners}

\* ClerkAuth.verify_token: the decoded claims, or HTTPException 401
verify_token(token) ==
    IF token.decodes
    THEN [raised |-> FALSE, status_code |-> 0, has_sub |-> token.has_sub, sub |-> token.sub]
    ELSE [raised |-> TRUE, status_code |-> 401, has_sub |-> FALSE, sub |-> ""]

\* ClerkAuth.get_google_access_token returns the token Clerk holds, or None
\* (Clerk answered without one, or the call failed)
NoToken == "None"
AccessTokens == {NoToken, "ya29"}

\* a handler slot of the contacts routes: the route, how far it is ("idle",
\* "token": waiting for Clerk's answer, "service": inside the service call,
\* "done": responded), the `sub` of the verified token, the access token
\* Clerk gave, the response status, and why the handler raised before the
\* service call
HttpIdle == [route |-> "", stage |-> "idle", sub |-> "", access_token |-> NoToken,
             status |-> 0, denied |-> ""]

\* the handler of slot r can take a new request
Free(r) == http[r].stage \in {"idle", "done"} /\ req[r].pc = "idle"

\* GET /google raised before the service call: HTTPException passes through
\* `except HTTPException: raise`, anything else becomes 500 (lines 45-52)
GoogleRaises(route, status, why) ==
    [HttpIdle EXCEPT !.route = route, !.stage = "done", !.status = status,
                     !.denied = why]

\* GET /cached and DELETE /cache raised: `except Exception` catches every
\* exception, HTTPException included, and answers 500 (lines 70-75, 93-98)
CacheRouteRaises(route, why) ==
    [HttpIdle EXCEPT !.route = route, !.stage = "done", !.status = 500,
                     !.denied = why]

\* GET /api/contacts/google, lines 26-31: the token is verified, then the
\* handler waits for Clerk's answer about the Google access token
get_google_contacts(r, token) ==
    /\ NoneDone
    /\ Free(r)
    /\ LET user_info == verify_token(token) IN
       http' = [http EXCEPT ![r] =
           IF user_info.raised
           THEN GoogleRaises("google", user_info.status_code, "invalid_token")
           ELSE IF ~user_info.has_sub
           THEN GoogleRaises("google", 500, "no_subject")
           ELSE [HttpIdle EXCEPT !.route = "google", !.stage = "token",
                                 !.sub = user_info.sub]]
    /\ UNCHANGED <<cacheVars, normVars, vecVars>>

\* a /google handler that looks into the cache before it checks the token
got_access_token_cache_first(r, access_token) ==
    /\ NoneDone
    /\ http[r].stage = "token"
    /\ FetchStart(r, http[r].sub)
    /\ http' = [http EXCEPT ![r] = [@ EXCEPT !.stage = "service",
                                             !.access_token = access_token]]

\* GET /api/contacts/google, lines 31-40: Clerk has answered; without an
\* access token the handler raises 401, with one it calls fetch_contacts
got_access_token(r, access_token) ==
    /\ NoneDone
    /\ http[r].stage = "token"
    /\ IF access_token = NoToken
       THEN /\ http' = [http EXCEPT ![r] =
                   [GoogleRaises("google", 401, "no_access_token")
                       EXCEPT !.sub = http[r].sub]]
            /\ UNCHANGED <<cacheVars, normVars, vecVars>>
       ELSE /\ FetchStart(r, http[r].sub)
            /\ http' = [http EXCEPT ![r] = [@ EXCEPT !.stage = "service",
                                                     !.access_token = access_token]]

\* GET /api/contacts/cached, lines 61-66
get_cached_contacts(r, token) ==
    /\ NoneDone
    /\ Free(r)
    /\ LET user_info == verify_token(token) IN
       IF user_info.raised \/ ~user_info.has_sub
       THEN /\ http' = [http EXCEPT ![r] =
                   CacheRouteRaises("cached", IF user_info.raised THEN "invalid_token"
                                                                  ELSE "no_subject")]
            /\ UNCHANGED <<cacheVars, normVars, vecVars>>
       ELSE /\ GetCached(r, user_info.sub)
            /\ http' = [http EXCEPT ![r] =
                   [HttpIdle EXCEPT !.route = "cached", !.stage = "service",
                                    !.sub = user_info.sub]]

\* DELETE /api/contacts/cache, lines 84-89
clear_contacts_cache(r, token) ==
    /\ NoneDone
    /\ Free(r)
    /\ LET user_info == verify_token(token) IN
       IF user_info.raised \/ ~user_info.has_sub
       THEN /\ http' = [http EXCEPT ![r] =
                   CacheRouteRaises("cache", IF user_info.raised THEN "invalid_token"
                                                                 ELSE "no_subject")]
            /\ UNCHANGED <<cacheVars, normVars, vecVars>>
       ELSE /\ Clear(r, user_info.sub)
            /\ http' = [http EXCEPT ![r] =
                   [HttpIdle EXCEPT !.route = "cache", !.stage = "service",
                                    !.sub = user_info.sub]]

\* the service call is over: the handler returns its result with 200, or
\* its exception reaches `except Exception` and becomes 500
Respond(r) ==
    /\ http[r].stage = "service"
    /\ Finish(r)
    /\ http' = [http EXCEPT ![r] =
           [@ EXCEPT !.stage = "done",
                     !.status = IF req[r].result.kind = "return" THEN 200 ELSE 500]]

(***************************************************************************)
(* Environment: time, the Redis server, foreign data under a cache key     *)
(***************************************************************************)
Tick ==
    /\ NoneDone
    /\ now + TickLen <= MaxTime
    /\ now' = now + TickLen
    /\ store' = Expire(store, now + TickLen)
    /\ UNCHANGED <<redisUp, redis_client, req, last_cached, normVars, vecVars, http>>

RedisDown ==
    /\ NoneDone
    /\ redisUp
    /\ redisUp' = FALSE
    /\ UNCHANGED <<now, redis_client, store, req, last_cached, normVars, vecVars, http>>

RedisUp ==
    /\ NoneDone
    /\ ~redisUp
    /\ redisUp' = TRUE
    /\ UNCHANGED <<now, redis_client, store, req, last_cached, normVars, vecVars, http>>

\* the value under a key is replaced by text that is not a JSON document
Corrupt(k) ==
    /\ NoneDone
    /\ Live(store[k], now)
    /\ store[k].value.wellformed
    /\ store' = [store EXCEPT ![k].value = Garbage]
    /\ last_cached' = [last_cached EXCEPT ![k] = NotCached]
    /\ UNCHANGED <<now, redisUp, redis_client, req, normVars, vecVars, http>>

(***************************************************************************)
(* _transform_contacts, one loop iteration per step                        *)
(***************************************************************************)
\* a loop without the per-entry try/except: the first entry that raises ends
\* the batch
TransformStepAborts ==
    /\ idx <= Len(google_contacts)
    /\ LET r == TransformContact(google_contacts[idx], Len(contacts)) IN
       /\ contacts' = IF r.keep THEN Append(contacts, r.obj) ELSE contacts
       /\ kept' = Append(kept, IF r.raised THEN "raised"
                               ELSE IF r.keep THEN "kept" ELSE "dropped")
       /\ idx' = IF r.raised THEN Len(google_contacts) + 1 ELSE idx + 1
    /\ UNCHANGED <<google_contacts, returned, cacheVars, vecVars, http>>

\* one iteration of `for contact in google_contacts` (lines 98-152)
TransformStep ==
    /\ idx <= Len(google_contacts)
    /\ LET r == TransformContact(google_contacts[idx], Len(contacts)) IN
       /\ contacts' = IF r.keep THEN Append(contacts, r.obj) ELSE contacts
       /\ kept' = Append(kept, IF r.raised THEN "raised"
                               ELSE IF r.keep THEN "kept" ELSE "dropped")
    /\ idx' = idx + 1
    /\ UNCHANGED <<google_contacts, returned, cacheVars, vecVars, http>>

\* the payloads a further call may be given: one already normalized, or
\* another one
NextPayloads ==
    {google_contacts, OtherPayload} \cup {returned[i][1] : i \in 1..Len(returned)}

\* a list that outlives the call (an attribute instead of the local of
\* line 96): the next call appends to what the last one built
TransformCallKeepsList(p) ==
    /\ idx > Len(google_contacts)
    /\ Len(returned) + 1 < MaxCalls
    /\ returned' = Append(returned, <<google_contacts, contacts>>)
    /\ google_contacts' = p
    /\ contacts' = contacts
    /\ idx' = 1
    /\ kept' = <<>>
    /\ UNCHANGED <<cacheVars, vecVars, http>>

\* `return contacts` (line 154) of one call, then the entry of the next call
\* of _transform_contacts (lines 92-96): `contacts = []`, the loop restarts
TransformCall(p) ==
    /\ idx > Len(google_contacts)
    /\ Len(returned) + 1 < MaxCalls
    /\ returned' = Append(returned, <<google_contacts, contacts>>)
    /\ google_contacts' = p
    /\ contacts' = <<>>
    /\ idx' = 1
    /\ kept' = <<>>
    /\ UNCHANGED <<cacheVars, vecVars, http>>

(***************************************************************************)
(* Vector store: PineconeStorage over a Pinecone index                     *)
(***************************************************************************)
\* embedding vectors, reduced to two orthogonal unit directions
East == <<1, 0>>
North == <<0, 1>>
Vecs == {East, North}

\* `dummy_vector = [0.0] * 1536`
dummy_vector == <<0, 0>>

\* the cosine similarity the index reports (a dot product on unit vectors;
\* 0 against the zero vector)
Score(q, v) == q[1] * v[1] + q[2] * v[2]

\* metadata mappings, as sets of <<key, value>>
MetaKX == {<<"k", "x">>}
EmptyMeta == {}
Metas == {MetaKX, EmptyMeta}

Ids == {"a", "b"}
PINECONE_NAMESPACE == "emails"
Namespaces == {PINECONE_NAMESPACE, "other"}

MaxTopK == 2
TopKs == 1..MaxTopK

Min(a, b) == IF a <= b THEN a ELSE b

EmptyIndex == [ns \in Namespaces |-> {}]

\* self.index.upsert(vectors=items, namespace=namespace): each item replaces
\* the record of its id in that namespace, or is added
IndexUpsert(idx_, items, namespace) ==
    LET upserted == {items[i][1] : i \in 1..Len(items)}
        records == {[id |-> items[i][1], values |-> items[i][2],
                     metadata |-> items[i][3]] : i \in 1..Len(items)}
    IN [idx_ EXCEPT ![namespace] = {r \in @ : r.id \notin upserted} \cup records]

\* one element of response["matches"]: the index reports the score, and the
\* metadata only when the record has some
Match(r, vector) ==
    [id |-> r.id, values |-> r.values, score |-> Score(vector, r.values),
     metadata |-> [has |-> r.metadata # {}, v |-> r.metadata]]

\* self.index.query(vector, top_k, include_values, include_metadata,
\* namespace): the responses the index may give, namely the top_k most
\* similar records of the namespace (all of them when it holds fewer), by
\* descending score, equal scores in any order
IndexQuery(idx_, vector, top_k, namespace) ==
    LET recs == idx_[namespace]
        n == Min(top_k, Cardinality(recs))
        ranked == {s \in [1..n -> recs] :
                      /\ \A i, j \in 1..n : i # j => s[i] # s[j]
                      /\ \A i, j \in 1..n :
                            i < j => Score(vector, s[i].values)
                                        >= Score(vector, s[j].values)
                      /\ \A r \in recs \ {s[i] : i \in 1..n} :
                            \A i \in 1..n : Score(vector, s[i].values)
                                               >= Score(vector, r.values)}
    IN {[i \in 1..n |-> Match(s[i], vector)] : s \in ranked}

\* zip(ids, vectors, metadata): stops at the shortest of the three
Zip(ids, vectors, metadata) ==
    [i \in 1..Min(Len(ids), Min(Len(vectors), Len(metadata)))
        |-> <<ids[i], vectors[i], metadata[i]>>]

\* items built without the metadata
insert_vectors_no_metadata(idx_, vectors, ids, metadata, namespace, ok) ==
    LET items == [i \in 1..Len(Zip(ids, vectors, metadata))
                     |-> <<ids[i], vectors[i], EmptyMeta>>] IN
    IF ok THEN [raised |-> FALSE, index |-> IndexUpsert(idx_, items, namespace)]
    ELSE [raised |-> TRUE, index |-> idx_]

\* PineconeStorage.insert_vectors; ok: the backend call succeeds
insert_vectors(idx_, vectors, ids, metadata, namespace, ok) ==
    LET items == Zip(ids, vectors, metadata) IN
    IF ok THEN [raised |-> FALSE, index |-> IndexUpsert(idx_, items, namespace)]
    ELSE [raised |-> TRUE, index |-> idx_]

\* the list built from response["matches"]: id, values and
\* match.get("metadata", {}) of each match, in the order of the response
ResultList(matches) ==
    [i \in 1..Len(matches) |->
        [id |-> matches[i].id, values |-> matches[i].values,
         metadata |-> IF matches[i].metadata.has THEN matches[i].metadata.v
                      ELSE EmptyMeta]]

\* what a method of the store hands back: an exception, or the list (with,
\* for the properties, the response of the index it was built from)
Raised == [raised |-> TRUE, result |-> <<>>, matches |-> <<>>]
Returned(matches) ==
    [raised |-> FALSE, result |-> ResultList(matches), matches |-> matches]

\* a query that asks the index for the default namespace
query_vectors_other_namespace(idx_, vector, top_k, namespace, ok) ==
    IF ~ok THEN {Raised}
    ELSE {Returned(ms) : ms \in IndexQuery(idx_, vector, top_k, PINECONE_NAMESPACE)}

\* an except that logs and returns an empty list
query_vectors_swallows(idx_, vector, top_k, namespace, ok) ==
    IF ~ok THEN {Returned(<<>>)}
    ELSE {Returned(ms) : ms \in IndexQuery(idx_, vector, top_k, namespace)}

\* PineconeStorage.query_vectors: the outcomes it may have
query_vectors(idx_, vector, top_k, namespace, ok) ==
    IF ~ok THEN {Raised}
    ELSE {Returned(ms) : ms \in IndexQuery(idx_, vector, top_k, namespace)}

\* a fetch that asks for one record more than the limit
fetch_all_over_limit(idx_, namespace, limit, ok) ==
    IF ~ok THEN {Raised}
    ELSE {Returned(ms) : ms \in IndexQuery(idx_, dummy_vector, limit + 1, namespace)}

\* PineconeStorage.fetch_all: a query with the dummy vector and top_k=limit
fetch_all(idx_, namespace, limit, ok) ==
    IF ~ok THEN {Raised}
    ELSE {Returned(ms) : ms \in IndexQuery(idx_, dummy_vector, limit, namespace)}

(***************************************************************************)
(* Embedding and the similarity search route                               *)
(***************************************************************************)
Queries == {"east", "north"}

\* openai.embeddings.create(input=[text]): the vector of a text
Embedding(text) == IF text = "east" THEN East ELSE North

\* the process environment: which credentials are set
Envs == [PINECONE_API_KEY : BOOLEAN, OPENAI_API_KEY : BOOLEAN]

\* the dependency that fails during one request, if any
Faults == {"none", "pinecone_init", "embedding", "store"}

\* r.get("score", 0.0) after `if "score" not in r: r["score"] = 0.0`
ScoreOf(r) == IF "score" \in DOMAIN r THEN r.score ELSE 0

\* the response of the route: [SimilarityResult(id, score, metadata)] or the
\* HTTPException(500, detail=str(e)) every exception is converted to; cause,
\* embeds and queries note which dependency failed and how many embedding
\* and index calls were made
SearchOk(out) ==
    [status |-> 200, error |-> "none", detail |-> "", cause |-> "none",
     embeds |-> 1, queries |-> 1, matches |-> out.matches,
     result |-> [i \in 1..Len(out.result) |->
                    [id |-> out.result[i].id, score |-> ScoreOf(out.result[i]),
                     metadata |-> out.result[i].metadata]]]

SearchFail(detail, cause, embeds, queries) ==
    [status |-> 500, error |-> "HTTPException", detail |-> detail,
     cause |-> cause, embeds |-> embeds, queries |-> queries,
     matches |-> <<>>, result |-> <<>>]

\* similarity_search(request) under environment env: its possible responses
similarity_search(idx_, query, top_k, env, fault) ==
    IF ~env.PINECONE_API_KEY
    THEN {SearchFail("Pinecone API key not set.", "config", 0, 0)}
    ELSE IF fault = "pinecone_init"
    THEN {SearchFail("pinecone", "store", 0, 0)}
    ELSE IF ~env.OPENAI_API_KEY
    THEN {SearchFail("OPENAI_API_KEY not set in environment.", "config", 0, 0)}
    ELSE IF fault = "embedding"
    THEN {SearchFail("openai", "embedding", 1, 0)}
    ELSE {IF out.raised THEN SearchFail("pinecone", "store", 1, 1) ELSE SearchOk(out) :
             out \in query_vectors(idx_, Embedding(query), top_k,
                                   PINECONE_NAMESPACE, fault # "store")}

(***************************************************************************)
(* Calls of the vector store                                               *)
(***************************************************************************)
\* arguments of insert_vectors: one record, two records, and lists of
\* unequal length
WellFormedBatches ==
    {[ids |-> <<i>>, vectors |-> <<v>>, metadata |-> <<m>>] :
        i \in Ids, v \in Vecs, m \in Metas}
    \cup {[ids |-> <<"a", "b">>, vectors |-> <<v, w>>, metadata |-> <<m, MetaKX>>] :
            v \in Vecs, w \in Vecs, m \in Metas}

MismatchedBatches ==
    {[ids |-> <<"a", "b">>, vectors |-> <<East, North>>, metadata |-> <<MetaKX>>],
     [ids |-> <<"a">>, vectors |-> <<North, East>>, metadata |-> <<MetaKX, EmptyMeta>>],
     [ids |-> <<"b", "a">>, vectors |-> <<North>>, metadata |-> <<EmptyMeta, MetaKX>>]}

Batches == WellFormedBatches \cup MismatchedBatches

\* the calls of insert_vectors: any batch into the namespace of the search
\* route, and single records of one id into another namespace
InsertCalls ==
    {<<b, PINECONE_NAMESPACE>> : b \in Batches}
    \cup {<<b, "other">> : b \in {w \in WellFormedBatches : w.ids = <<"a">>}}

Lens(b) == <<Len(b.vectors), Len(b.ids), Len(b.metadata)>>

\* the record of a call: the operation and its arguments, whether the
\* backend failed (fault), whether the method raised and which kind of error
\* the caller got, and what it returned
NoCall ==
    [op |-> "none", namespace |-> "", batch |-> <<>>, lens |-> <<0, 0, 0>>,
     vector |-> <<>>, top_k |-> 0, fault |-> FALSE, raised |-> FALSE,
     error |-> "none", cause |-> "none", status |-> 0, detail |-> "",
     embeds |-> 0, queries |-> 0, matches |-> <<>>, result |-> <<>>]

Insert(b, namespace, ok) ==
    /\ LET out == insert_vectors(index, b.vectors, b.ids, b.metadata, namespace, ok) IN
       /\ index' = out.index
       /\ vcall' = [NoCall EXCEPT !.op = "insert", !.namespace = namespace,
                                  !.batch = IF out.raised THEN <<>> ELSE b,
                                  !.lens = Lens(b), !.fault = ~ok,
                                  !.raised = out.raised,
                                  !.error = IF out.raised THEN "store" ELSE "none",
                                  !.cause = IF ok THEN "none" ELSE "store"]
    /\ UNCHANGED <<cacheVars, normVars, http>>

Query(vector, top_k, namespace, ok) ==
    /\ \E out \in query_vectors(index, vector, top_k, namespace, ok) :
          vcall' = [NoCall EXCEPT !.op = "query", !.namespace = namespace,
                                  !.vector = vector, !.top_k = top_k,
                                  !.fault = ~ok, !.raised = out.raised,
                                  !.error = IF out.raised THEN "store" ELSE "none",
                                  !.cause = IF ok THEN "none" ELSE "store",
                                  !.matches = out.matches, !.result = out.result]
    /\ UNCHANGED <<index, cacheVars, normVars, http>>

Fetch(namespace, limit, ok) ==
    /\ \E out \in fetch_all(index, namespace, limit, ok) :
          vcall' = [NoCall EXCEPT !.op = "fetch", !.namespace = namespace,
                                  !.vector = dummy_vector, !.top_k = limit,
                                  !.fault = ~ok, !.raised = out.raised,
                                  !.error = IF out.raised THEN "store" ELSE "none",
                                  !.cause = IF ok THEN "none" ELSE "store",
                                  !.matches = out.matches, !.result = out.result]
    /\ UNCHANGED <<index, cacheVars, normVars, http>>

\* POST /similarity-search
Search(query, top_k, env, fault) ==
    /\ \E resp \in similarity_search(index, query, top_k, env, fault) :
          vcall' = [NoCall EXCEPT !.op = "search",
                                  !.namespace = PINECONE_NAMESPACE,
                                  !.vector = Embedding(query), !.top_k = top_k,
                                  !.fault = resp.cause # "none",
                                  !.raised = resp.status # 200,
                                  !.error = resp.error, !.cause = resp.cause,
                                  !.status = resp.status, !.detail = resp.detail,
                                  !.embeds = resp.embeds, !.queries = resp.queries,
                                  !.matches = resp.matches, !.result = resp.result]
    /\ UNCHANGED <<index, cacheVars, normVars, http>>

(***************************************************************************)
(* Specifications                                                          *)
(***************************************************************************)
InitCache ==
    /\ now = 0
    /\ redisUp \in BOOLEAN
    /\ redis_client = "None"
    /\ store = [k \in Keys |-> NoEntry]
    /\ req = [r \in Reqs |-> Idle]
    /\ last_cached = [k \in Keys |-> NotCached]
    /\ http = [r \in Reqs |-> HttpIdle]

Init ==
    /\ InitCache
    /\ google_contacts = <<>>
    /\ idx = 1
    /\ contacts = <<>>
    /\ kept = <<>>
    /\ returned = <<>>
    /\ index = EmptyIndex
    /\ vcall = NoCall

Next ==
    \/ \E r \in Reqs, u \in UserIds : FetchStart(r, u) /\ UNCHANGED http
    \/ \E r \in Reqs, resp \in OkResponses \cup FailResponses : FetchUpstream(r, resp)
    \/ \E r \in Reqs : FetchFallback(r)
    \/ \E r \in Reqs, u \in UserIds : GetCached(r, u) /\ UNCHANGED http
    \/ \E r \in Reqs, u \in UserIds : Clear(r, u) /\ UNCHANGED http
    \/ \E r \in Reqs : Finish(r) /\ UNCHANGED http
    \/ Tick
    \/ RedisDown
    \/ RedisUp
    \/ \E k \in Keys : Corrupt(k)

Spec == Init /\ [][Next]_vars

\* the contacts routes in front of the service: every bearer token, Clerk
\* with and without a Google access token, upstream answers of each kind,
\* Redis reachable throughout or unreachable throughout
RouteResponses ==
    {[kind |-> "ok", has |-> TRUE, connections |-> <<EAda>>],
     [kind |-> "ok", has |-> FALSE, connections |-> <<>>],
     [kind |-> "http_error", has |-> FALSE, connections |-> <<>>]}

NextRoute ==
    \/ \E r \in Reqs, token \in Tokens : get_google_contacts(r, token)
    \/ \E r \in Reqs, access_token \in AccessTokens : got_access_token(r, access_token)
    \/ \E r \in Reqs, resp \in RouteResponses : FetchUpstream(r, resp)
    \/ \E r \in Reqs : FetchFallback(r)
    \/ \E r \in Reqs, token \in Tokens : get_cached_contacts(r, token)
    \/ \E r \in Reqs, token \in Tokens : clear_contacts_cache(r, token)
    \/ \E r \in Reqs : Respond(r)

SpecRoute == Init /\ [][NextRoute]_vars

\* the normalizer alone, on every payload of up to MaxEntries raw entries
InitNorm ==
    /\ now = 0
    /\ redisUp = TRUE
    /\ redis_client = "None"
    /\ store = [k \in Keys |-> NoEntry]
    /\ req = [r \in Reqs |-> Idle]
    /\ last_cached = [k \in Keys |-> NotCached]
    /\ http = [r \in Reqs |-> HttpIdle]
    /\ google_contacts \in RawPayloads
    /\ idx = 1
    /\ contacts = <<>>
    /\ kept = <<>>
    /\ returned = <<>>
    /\ index = EmptyIndex
    /\ vcall = NoCall

NextNorm == TransformStep

SpecNorm == InitNorm /\ [][NextNorm]_vars

\* repeated calls of the normalizer on one service object
InitRepeat ==
    /\ InitCache
    /\ google_contacts \in RepeatPayloads
    /\ idx = 1
    /\ contacts = <<>>
    /\ kept = <<>>
    /\ returned = <<>>
    /\ index = EmptyIndex
    /\ vcall = NoCall

NextRepeat ==
    \/ TransformStep
    \/ \E p \in NextPayloads : TransformCall(p)

SpecRepeat == InitRepeat /\ [][NextRepeat]_vars

\* the vector store and the similarity search route
InitVec ==
    /\ InitNorm
    /\ google_contacts = <<>>

NextVec ==
    \/ \E c \in InsertCalls, ok \in BOOLEAN : Insert(c[1], c[2], ok)
    \/ \E v \in Vecs, k \in TopKs, ns \in Namespaces, ok \in BOOLEAN : Query(v, k, ns, ok)
    \/ \E ns \in Namespaces, limit \in TopKs, ok \in BOOLEAN : Fetch(ns, limit, ok)
    \/ \E q \in Queries, k \in TopKs, env \in Envs, fault \in Faults : Search(q, k, env, fault)

SpecVec == InitVec /\ [][NextVec]_vars

(***************************************************************************)
(* Properties                                                              *)
(***************************************************************************)
\* the step starts fetch_contacts(access_token, u) in slot r
StartsFetch(r, u) ==
    req[r].pc = "idle" /\ req'[r].op = "fetch_contacts" /\ req'[r].user_id = u

\* the key holds an unexpired JSON document
Fresh(k) == Live(store[k], now) /\ store[k].value.wellformed

\* the records of the document under key k, field by field
EntryRecords(k) ==
    [i \in 1..Len(store[k].value.doc.contacts) |->
        [f \in ContactFields |-> store[k].value.doc.contacts[i][f].v]]

\* a read of u's entry now would find at least one record
HasData(u) ==
    /\ redisUp
    /\ Fresh(CacheKey(u))
    /\ Len(store[CacheKey(u)].value.doc.contacts) >= 1

DoneFetch(r) == req[r].op = "fetch_contacts" /\ req[r].pc = "done"

\* C1: a fetch_contacts call for an owner whose entry is present, unexpired
\* and holds at least one record, with Redis reachable, returns exactly the
\* cached records and makes no upstream HTTP call.
C1_CacheHit ==
    [][\A r \in Reqs, u \in Owners :
          (StartsFetch(r, u) /\ HasData(u))
          => /\ req'[r].pc = "done"
             /\ req'[r].result = Return(EntryRecords(CacheKey(u)))
             /\ ~req'[r].called]_vars

C1_Witness ==
    \E r \in Reqs : /\ DoneFetch(r)
                    /\ ~req[r].called
                    /\ req[r].result.kind = "return"
                    /\ Len(req[r].result.contacts) >= 1
                    /\ HasData(req[r].user_id)

\* the try block of the call raised because the upstream call failed
UpstreamFailed(r) == req[r].called /\ req[r].failed /\ req[r].response.kind = "none"

\* C5: fetch_contacts ends in an error exactly when the upstream call failed
\* and the fallback cache read returned no records; it then returns no
\* records, and in every other case it returns a record sequence.
C5_ErrorIff ==
    \A r \in Reqs :
        DoneFetch(r) =>
            /\ req[r].result.kind \in {"return", "raise"}
            /\ req[r].result.kind = "raise"
                   <=> (UpstreamFailed(r) /\ ~HasData(req[r].user_id))
            /\ req[r].result.kind = "raise" => req[r].result.contacts = <<>>
            /\ (UpstreamFailed(r) /\ HasData(req[r].user_id))
                   => req[r].result = Return(EntryRecords(CacheKey(req[r].user_id)))

C5_Witness ==
    \E r \in Reqs : DoneFetch(r) /\ req[r].result.kind = "raise" /\ UpstreamFailed(r)

\* C6: no Cache Layer operation raises to its caller: get_cached_contacts
\* returns [] on a miss, an expired or undecodable entry or an unreachable
\* store; cache_contacts and clear_cache return normally when the store is
\* unreachable.
C6_CacheNeverRaises ==
    /\ \A u \in UserIds :
          LET g == GetCachedContacts(u, redis_client, redisUp, store, now)
              c == ClearCache(u, redis_client, redisUp, store)
          IN /\ ~g.raised
             /\ ~HasData(u) => g.value = <<>>
             /\ ~c.raised
             /\ ~redisUp => c.store = store
             /\ \A p \in Connections :
                   LET w == CacheContacts(u, TransformContacts(p), redis_client,
                                          redisUp, store, now)
                   IN ~w.raised /\ (~redisUp => w.store = store)
    /\ \A r \in Reqs :
          /\ (req[r].pc = "done" /\ req[r].op \in {"get_cached_contacts", "clear_cache"})
                 => req[r].result.kind = "return"
          /\ req[r].pc = "fallback" => UpstreamFailed(r)

\* a cache route answered while the connected client's server was down,
\* over an entry that is there
C6_Witness ==
    \E r \in Reqs :
        /\ req[r].pc = "done"
        /\ req[r].op \in {"get_cached_contacts", "clear_cache"}
        /\ ~redisUp
        /\ redis_client = "Client"
        /\ Fresh(CacheKey(req[r].user_id))

\* C7: whatever the state of Redis, a fetch_contacts call whose upstream
\* fetch succeeds returns the normalized records of that fetch.
C7_UpstreamSuccessReturns ==
    \A r \in Reqs :
        /\ (DoneFetch(r) /\ req[r].response.kind = "ok")
               => req[r].result = Return(TransformContacts(DataGet(req[r].response)))
        /\ req[r].pc = "fallback" => req[r].response.kind # "ok"

\* the upstream fetch succeeded while the connected client's server was down
C7_Witness ==
    \E r \in Reqs :
        /\ DoneFetch(r)
        /\ req[r].response.kind = "ok"
        /\ Len(req[r].result.contacts) >= 1
        /\ ~redisUp
        /\ redis_client = "Client"

\* the owner's records were cached at most CACHE_TTL ago and Redis answers
WithinTtl(u) ==
    /\ last_cached[CacheKey(u)].has
    /\ now < last_cached[CacheKey(u)].at + CACHE_TTL
    /\ redisUp

\* the owner's records were cached and their lifetime has elapsed
Elapsed(u) ==
    /\ last_cached[CacheKey(u)].has
    /\ now >= last_cached[CacheKey(u)].at + CACHE_TTL

\* C2: after a miss and a successful upstream fetch, fetch_contacts returns
\* the normalized result, and a second call for the same owner within the
\* TTL window (Redis reachable) returns the identical records without a
\* second upstream call.
C2_SecondCallFromCache ==
    [][/\ \A r \in Reqs :
             (req[r].pc = "upstream" /\ req'[r].pc = "done")
             => req'[r].result = Return(TransformContacts(DataGet(req'[r].response)))
       /\ \A r \in Reqs, u \in Owners :
             (StartsFetch(r, u) /\ WithinTtl(u))
             => /\ req'[r].pc = "done"
                /\ req'[r].result = Return(last_cached[CacheKey(u)].contacts)
                /\ ~req'[r].called]_vars

\* C3: an upstream success with zero records is returned as an empty
\* success, the empty result is cached, and later calls for the owner within
\* the TTL window (Redis reachable) do not invoke the upstream fetch.
C3_EmptyResultCached ==
    [][/\ \A r \in Reqs :
             (/\ req[r].pc = "upstream" /\ req'[r].pc = "done"
              /\ TransformContacts(DataGet(req'[r].response)) = <<>>)
             => /\ req'[r].result = Return(<<>>)
                /\ redisUp => /\ Live(store'[CacheKey(req[r].user_id)], now)
                              /\ last_cached'[CacheKey(req[r].user_id)] = Cached(<<>>, now)
       /\ \A r \in Reqs, u \in Owners :
             (StartsFetch(r, u) /\ WithinTtl(u)
              /\ last_cached[CacheKey(u)].contacts = <<>>)
             => ~req'[r].called]_vars

\* C3, the part the code keeps: the empty success and the cached empty result
C3_EmptyResultStored ==
    [][\A r \in Reqs :
          (/\ req[r].pc = "upstream" /\ req'[r].pc = "done"
           /\ TransformContacts(DataGet(req'[r].response)) = <<>>)
          => /\ req'[r].result = Return(<<>>)
             /\ redisUp => /\ Live(store'[CacheKey(req[r].user_id)], now)
                           /\ last_cached'[CacheKey(req[r].user_id)] = Cached(<<>>, now)]_vars

\* C4 as claimed: when the upstream fetch fails and records were cached for
\* the owner, even if their lifetime has elapsed, fetch_contacts returns
\* them (Redis reachable, at least one record).
C4_StaleServed ==
    \A r \in Reqs :
        (/\ DoneFetch(r) /\ UpstreamFailed(r) /\ redisUp
         /\ last_cached[CacheKey(req[r].user_id)].has
         /\ Len(last_cached[CacheKey(req[r].user_id)].contacts) >= 1)
        => req[r].result = Return(last_cached[CacheKey(req[r].user_id)].contacts)

\* C4 as amended: when the upstream fetch fails and the fallback read finds
\* an unexpired entry with at least one record, fetch_contacts returns those
\* records; records whose lifetime has elapsed are not served, the call fails.
C4_FallbackServesLive ==
    \A r \in Reqs :
        (DoneFetch(r) /\ UpstreamFailed(r))
        => /\ HasData(req[r].user_id)
               => /\ req[r].result = Return(EntryRecords(CacheKey(req[r].user_id)))
                  /\ Len(req[r].result.contacts) >= 1
           /\ Elapsed(req[r].user_id) => req[r].result = Raise

C4_Witness ==
    \E r \in Reqs : /\ DoneFetch(r) /\ UpstreamFailed(r)
                    /\ HasData(req[r].user_id)
                    /\ req[r].result.kind = "return"

\* the step is the cache write of fetch_contacts in slot r, with Redis up
WritesCache(r) == req[r].pc = "upstream" /\ req'[r].pc = "done" /\ redisUp

Clears(r, u) ==
    req[r].pc = "idle" /\ req'[r].op = "clear_cache" /\ req'[r].user_id = u

ResolvedName(e) ==
    IF e.names = <<>> \/ e.names[1].displayName.t = "absent"
    THEN UnknownContact ELSE e.names[1].displayName.v

ResolvedEmail(e) ==
    IF e.emailAddresses = <<>> \/ e.emailAddresses[1].value.t = "absent"
    THEN <<>> ELSE e.emailAddresses[1].value.v

ResolvedPhone(e) ==
    IF e.phoneNumbers = <<>> \/ e.phoneNumbers[1].value.t = "absent"
    THEN <<>> ELSE e.phoneNumbers[1].value.v

KeptCount == Cardinality({i \in 1..Len(kept) : kept[i] = "kept"})

\* C10: an entry whose fields resolve is kept iff its resolved name is not
\* "Unknown Contact" or its resolved email or phone is non-empty (an entry
\* whose resolution raises is skipped); the output holds exactly the kept
\* entries; an entry with empty names, emailAddresses and phoneNumbers lists
\* yields no record.
C10_MeaningfulFilter ==
    /\ Len(kept) = idx - 1
    /\ Len(contacts) = KeptCount
    /\ \A i \in 1..Len(kept) :
          LET e == google_contacts[i] IN
          /\ kept[i] # "raised" =>
                (kept[i] = "kept" <=> \/ ResolvedName(e) # UnknownContact
                                      \/ ResolvedEmail(e) # <<>>
                                      \/ ResolvedPhone(e) # <<>>)
          /\ (/\ e.map /\ e.names = <<>> /\ e.emailAddresses = <<>>
              /\ e.phoneNumbers = <<>>) => kept[i] # "kept"
    /\ (idx > Len(google_contacts)
        /\ \A i \in 1..Len(google_contacts) : google_contacts[i] = EEmpty)
           => contacts = <<>>

\* a finished run that kept one entry and filtered out another one that
\* carries a name (the placeholder) but no email or phone
C10_Witness ==
    /\ idx > Len(google_contacts)
    /\ \E i, j \in 1..Len(kept) :
          /\ kept[i] = "kept"
          /\ kept[j] = "dropped" /\ google_contacts[j].names # <<>>
    /\ \E i \in 1..Len(kept) : google_contacts[i] = EEmpty /\ kept[i] = "dropped"

(***************************************************************************)
(* Repeated calls of the normalizer (SpecRepeat)                           *)
(***************************************************************************)
\* every finished call, oldest first: the earlier ones and the current one
\* once its loop has ended
Finished ==
    returned \o (IF idx > Len(google_contacts)
                 THEN << <<google_contacts, contacts>> >> ELSE <<>>)

\* C11: whenever _transform_contacts has been called more than once on one
\* service object, any two calls given the same raw payload returned the
\* same sequence of records (length, order, identifiers, every field, the
\* generated avatar), whatever was normalized in between and whatever the
\* state of the cache client.
C11_NormalizerIdempotent ==
    \A i, j \in 1..Len(Finished) :
        Finished[i][1] = Finished[j][1] => Finished[i][2] = Finished[j][2]

\* the same payload normalized, then another one, then the first again; it
\* yields two records, the second with a positional identifier and both with
\* generated avatars
C11_Witness ==
    /\ Len(Finished) = 3
    /\ Finished[1][1] = Finished[3][1]
    /\ Finished[2][1] # Finished[1][1]
    /\ Finished[2][2] # <<>>
    /\ Len(Finished[3][2]) = 2
    /\ Finished[3][2][2].id = <<"contact-", DecStr(1)>>
    /\ \A k \in 1..2 : Finished[3][2][k].avatar = GeneratedAvatar(Finished[3][2][k].name)

(***************************************************************************)
(* The avatar (SpecNorm)                                                   *)
(***************************************************************************)
\* the record the loop appended for the kept entry i
RecordOf(i) == contacts[Cardinality({j \in 1..i : kept[j] = "kept"})]

\* the positions of the photos elements that provide a non-empty url
PhotosWithUrl(e) ==
    {i \in 1..Len(e.photos) : /\ e.photos[i].map
                              /\ e.photos[i].url.t = "str"
                              /\ e.photos[i].url.v # <<>>}

\* the first available photo URL of a raw entry, <<>> when there is none
FirstPhotoUrl(e) ==
    IF PhotosWithUrl(e) = {} THEN <<>>
    ELSE e.photos[CHOOSE i \in PhotosWithUrl(e) :
                      \A j \in PhotosWithUrl(e) : i <= j].url.v

\* C12: the avatar of every returned record is the first available photo URL
\* of its raw entry when one exists, and otherwise the generated reference
\* built from the record's name alone (each space replaced by '+' inside the
\* fixed template).
C12_AvatarFirstPhotoElseGenerated ==
    \A i \in 1..Len(kept) :
        kept[i] = "kept" =>
            LET e == google_contacts[i] IN
            RecordOf(i).avatar = IF FirstPhotoUrl(e) # <<>> THEN FirstPhotoUrl(e)
                                 ELSE GeneratedAvatar(RecordOf(i).name)

\* what the loop body does compute: the url of the first photos element when
\* it is non-empty, else the generated reference, a function of the name
\* only; "Ada Lovelace" gives a reference containing "Ada+Lovelace"
C12_AvatarOfFirstElement ==
    \A i \in 1..Len(kept) :
        kept[i] = "kept" =>
            LET e == google_contacts[i]
                rec == RecordOf(i) IN
            /\ rec.avatar = IF 1 \in PhotosWithUrl(e) THEN e.photos[1].url.v
                            ELSE GeneratedAvatar(rec.name)
            /\ (rec.name = AdaLovelace /\ ~(1 \in PhotosWithUrl(e)))
                  => SubSeq(rec.avatar, 2, 4) = <<"Ada", "+", "Lovelace">>

(***************************************************************************)
(* Malformed entries (SpecNorm)                                            *)
(***************************************************************************)
\* the first element of a field list is a mapping whose value is not null
FirstOk(lst, key) == lst = <<>> \/ (lst[1].map /\ lst[1][key].t # "null")

\* a raw entry of the expected shape
WellFormed(e) ==
    /\ e.map
    /\ e.resourceName.t # "null"
    /\ FirstOk(e.names, "displayName")
    /\ FirstOk(e.emailAddresses, "value")
    /\ FirstOk(e.phoneNumbers, "value")
    /\ e.photos = <<>> \/ e.photos[1].map
    /\ FirstOk(e.organizations, "name")
    /\ FirstOk(e.organizations, "title")
    /\ FirstOk(e.addresses, "formattedValue")
    /\ FirstOk(e.biographies, "value")

\* C13: a malformed entry (not a mapping, or a field list whose first
\* element has an unexpected shape) is skipped and nothing else: the loop
\* goes on, and the records built so far are exactly those the well-formed
\* entries processed so far give without it, in input order.
C13_MalformedSkipped ==
    /\ Len(kept) = idx - 1
    /\ \A i \in 1..Len(kept) :
          kept[i] = "raised" <=> ~WellFormed(google_contacts[i])
    /\ contacts = TransformContacts(
                      SelectSeq(SubSeq(google_contacts, 1, idx - 1), WellFormed))

\* a finished batch of three: a record, a malformed field list, and a record
\* again, which takes the positional identifier after the first
C13_Witness ==
    /\ idx > Len(google_contacts)
    /\ kept = <<"kept", "raised", "kept">>
    /\ google_contacts[2].map
    /\ Len(contacts) = 2
    /\ contacts[2].id = <<"contact-", DecStr(1)>>

(***************************************************************************)
(* Properties of the vector store (SpecVec)                                *)
(***************************************************************************)
\* the stored record a result stands for
AsRecord(r) == [id |-> r.id, values |-> r.values, metadata |-> r.metadata]

Descending(vector, res) ==
    \A i, j \in 1..Len(res) :
        i < j => Score(vector, res[i].values) >= Score(vector, res[j].values)

\* C14: a query_vectors call that returns gives at most top_k results, fewer
\* only when the namespace holds fewer records, in descending order of their
\* similarity to the query vector, each one a record of that namespace.
C14_QueryTopK ==
    (vcall.op = "query" /\ ~vcall.raised) =>
        LET res == vcall.result
            recs == index[vcall.namespace] IN
        /\ Len(res) <= vcall.top_k
        /\ Len(res) < vcall.top_k => Len(res) = Cardinality(recs)
        /\ Descending(vcall.vector, res)
        /\ \A i \in 1..Len(res) : AsRecord(res[i]) \in recs

\* a query for one result on a namespace of two records with different
\* scores, while the other namespace holds a record this one does not
C14_Witness ==
    /\ vcall.op = "query" /\ ~vcall.raised
    /\ vcall.top_k = 1 /\ Len(vcall.result) = 1
    /\ Cardinality(index[vcall.namespace]) = 2
    /\ \E r \in index[vcall.namespace] :
          Score(vcall.vector, r.values) < Score(vcall.vector, vcall.result[1].values)
    /\ \E ns \in Namespaces : index[ns] \ index[vcall.namespace] # {}

\* C15: every result of a similarity search carries the score the index
\* reported for that match (0.0 only when the index reported none).
C15_ScoreReported ==
    (vcall.op = "search" /\ vcall.status = 200) =>
        /\ Len(vcall.result) = Len(vcall.matches)
        /\ \A i \in 1..Len(vcall.result) :
              vcall.result[i].score = vcall.matches[i].score

\* what the route does return: the matches of the index in their order, each
\* with score 0.0
C15_ScoreAlwaysZero ==
    (vcall.op = "search" /\ vcall.status = 200) =>
        /\ Len(vcall.result) = Len(vcall.matches)
        /\ \A i \in 1..Len(vcall.result) :
              /\ vcall.result[i].id = vcall.matches[i].id
              /\ vcall.result[i].score = 0

\* no namespace holds two records of one id
OneRecordPerId ==
    \A ns \in Namespaces :
        \A r1, r2 \in index[ns] : r1.id = r2.id => r1 = r2

\* this step is a call of insert_vectors with lists of equal length that
\* returned
InsertsStep ==
    /\ vcall'.op = "insert" /\ ~vcall'.raised
    /\ vcall'.lens[1] = vcall'.lens[2] /\ vcall'.lens[2] = vcall'.lens[3]

\* after the step every inserted id has exactly the record just given
Replaced ==
    \A i \in 1..Len(vcall'.batch.ids) :
        {r \in index'[vcall'.namespace] : r.id = vcall'.batch.ids[i]}
            = {[id |-> vcall'.batch.ids[i], values |-> vcall'.batch.vectors[i],
                metadata |-> vcall'.batch.metadata[i]]}

\* the last call was insert_vectors([v], [id], [m], ns), it returned, and
\* this step is query_vectors(v, 1, ns), which returns
QueryAfterInsert ==
    /\ vcall.op = "insert" /\ ~vcall.raised /\ vcall.lens = <<1, 1, 1>>
    /\ vcall'.op = "query" /\ ~vcall'.raised
    /\ vcall'.vector = vcall.batch.vectors[1]
    /\ vcall'.top_k = 1
    /\ vcall'.namespace = vcall.namespace

\* C16 as stated: the query after the insert returns exactly one result, with
\* the inserted id and its metadata verbatim; an insert of an id already in
\* the namespace replaces its record.
C16_RoundTripExact ==
    /\ []OneRecordPerId
    /\ [][InsertsStep => Replaced]_vars
    /\ [][QueryAfterInsert =>
            /\ Len(vcall'.result) = 1
            /\ vcall'.result[1].id = vcall.batch.ids[1]
            /\ vcall'.result[1].metadata = vcall.batch.metadata[1]]_vars

\* C16 amended: the query after the insert returns exactly one result, as
\* similar to v as v itself; it is the inserted record (its id, its metadata
\* verbatim) whenever no other record of the namespace is as similar to v;
\* an insert of an id already in the namespace replaces its record.
C16_RoundTrip ==
    /\ []OneRecordPerId
    /\ [][InsertsStep => Replaced]_vars
    /\ [][QueryAfterInsert =>
            LET v == vcall.batch.vectors[1]
                res == vcall'.result IN
            /\ Len(res) = 1
            /\ Score(v, res[1].values) = Score(v, v)
            /\ AsRecord(res[1]) \in index[vcall.namespace]
            /\ (\A r \in index[vcall.namespace] :
                   r.id # vcall.batch.ids[1] => Score(v, r.values) < Score(v, v))
                  => /\ res[1].id = vcall.batch.ids[1]
                     /\ res[1].metadata = vcall.batch.metadata[1]]_vars

\* a query for the single best match of a vector that exactly one of the two
\* records of the namespace has, returning that record with its metadata
C16_Witness ==
    /\ vcall.op = "query" /\ ~vcall.raised /\ vcall.top_k = 1
    /\ Cardinality(index[vcall.namespace]) = 2
    /\ Len(vcall.result) = 1
    /\ vcall.result[1].values = vcall.vector
    /\ vcall.result[1].metadata = MetaKX
    /\ \A r \in index[vcall.namespace] :
          r.id # vcall.result[1].id => r.values # vcall.vector

\* C17: a call of insert_vectors whose three lists differ in length is a
\* caller error: the method raises, not with a store error, and the index is
\* left as it was.
C17_LengthMismatchRejected ==
    [][(/\ vcall'.op = "insert" /\ ~vcall'.fault
        /\ ~(vcall'.lens[1] = vcall'.lens[2] /\ vcall'.lens[2] = vcall'.lens[3]))
          => /\ vcall'.raised
             /\ vcall'.error # "store"
             /\ index' = index]_vars

\* C18: a fetch_all call that returns gives at most limit records, all of
\* that namespace; on an empty namespace it returns the empty sequence, and
\* raises only when the backend fails.
C18_FetchAllBounded ==
    vcall.op = "fetch" =>
        /\ ~vcall.raised =>
              /\ Len(vcall.result) <= vcall.top_k
              /\ \A i \in 1..Len(vcall.result) :
                    AsRecord(vcall.result[i]) \in index[vcall.namespace]
        /\ (index[vcall.namespace] = {} /\ ~vcall.fault) =>
              ~vcall.raised /\ vcall.result = <<>>

\* a fetch with limit 1 that returned one of the two records of its
\* namespace
C18_Witness ==
    /\ vcall.op = "fetch" /\ ~vcall.raised
    /\ vcall.top_k = 1 /\ Len(vcall.result) = 1
    /\ Cardinality(index[vcall.namespace]) = 2

\* a fetch on an empty namespace that returned, another namespace holding
\* records
C18_WitnessEmpty ==
    /\ vcall.op = "fetch" /\ ~vcall.raised /\ vcall.result = <<>>
    /\ index[vcall.namespace] = {}
    /\ \E ns \in Namespaces : index[ns] # {}

\* C19: when the backend fails during insert_vectors, query_vectors or
\* fetch_all, the method raises that error to its caller and returns
\* nothing; it raises only then.
C19_BackendErrorRaised ==
    vcall.op \in {"insert", "query", "fetch"} =>
        /\ vcall.fault => (vcall.raised /\ vcall.error = "store"
                           /\ vcall.result = <<>>)
        /\ vcall.raised => vcall.fault

\* a query that failed in the backend although its namespace holds records
C19_Witness ==
    /\ vcall.op = "query" /\ vcall.fault /\ vcall.raised
    /\ index[vcall.namespace] # {}

\* C20: similarity_search embeds the query once and queries the store once,
\* and a failing dependency's error reaches the client with its own kind
\* (configuration, embedding provider, store), not caught or converted.
C20_ErrorKindKept ==
    vcall.op = "search" =>
        /\ vcall.status = 200 => (vcall.embeds = 1 /\ vcall.queries = 1)
        /\ vcall.embeds <= 1 /\ vcall.queries <= 1
        /\ vcall.raised => vcall.error = vcall.cause

\* what the route does: at most one embedding call and one store query, one
\* of each on success, and every failure answered as HTTP 500
C20_OneEmbedOneQuery ==
    vcall.op = "search" =>
        /\ vcall.status = 200 => (vcall.embeds = 1 /\ vcall.queries = 1)
        /\ vcall.embeds <= 1 /\ vcall.queries <= 1
        /\ vcall.raised <=> vcall.cause # "none"
        /\ vcall.raised => (vcall.status = 500 /\ vcall.error = "HTTPException")

(***************************************************************************)
(* Field resolution and identifiers (SpecNorm)                             *)
(***************************************************************************)
\* the positions of the elements of a field list that provide the field
Providing(lst, key) ==
    {i \in 1..Len(lst) : lst[i].map /\ lst[i][key].t = "str"}

\* the value of the first element that provides the field, else the default
FirstProvided(lst, key, default) ==
    IF Providing(lst, key) = {} THEN default
    ELSE lst[CHOOSE i \in Providing(lst, key) :
                 \A j \in Providing(lst, key) : i <= j][key].v

\* C24: in every returned record, name, email, phone, address and note are
\* the values of the first element of the respective raw list that provides
\* the field, and the default ("Unknown Contact", or the empty string) only
\* when no element provides it.
C24_FirstProvidingElement ==
    \A i \in 1..Len(kept) :
        kept[i] = "kept" =>
            LET e == google_contacts[i]
                rec == RecordOf(i) IN
            /\ rec.name = FirstProvided(e.names, "displayName", UnknownContact)
            /\ rec.email = FirstProvided(e.emailAddresses, "value", <<>>)
            /\ rec.phone = FirstProvided(e.phoneNumbers, "value", <<>>)
            /\ rec.address = FirstProvided(e.addresses, "formattedValue", <<>>)
            /\ rec.notes = FirstProvided(e.biographies, "value", <<>>)

\* what the loop body does resolve: the field of the first element of each
\* list, and the default when that element lacks it or the list is empty
C24_FirstElementOnly ==
    \A i \in 1..Len(kept) :
        kept[i] = "kept" =>
            LET e == google_contacts[i]
                rec == RecordOf(i)
                Head1(lst, key, default) ==
                    IF 1 \in Providing(lst, key) THEN lst[1][key].v ELSE default
            IN
            /\ rec.name = Head1(e.names, "displayName", UnknownContact)
            /\ rec.email = Head1(e.emailAddresses, "value", <<>>)
            /\ rec.phone = Head1(e.phoneNumbers, "value", <<>>)
            /\ rec.address = Head1(e.addresses, "formattedValue", <<>>)
            /\ rec.notes = Head1(e.biographies, "value", <<>>)

\* C25: every record built has a non-empty identifier and a non-empty name,
\* and the identifiers within one result are pairwise distinct.
C25_IdentifiersDistinct ==
    /\ \A i \in 1..Len(contacts) :
          contacts[i].id # <<>> /\ contacts[i].name # <<>>
    /\ \A i, j \in 1..Len(contacts) :
          i # j => contacts[i].id # contacts[j].id

\* what the loop does guarantee: the positional identifiers it hands out are
\* non-empty and distinct from one another
C25_FallbackIdsDistinct ==
    \A i, j \in 1..Len(kept) :
        (/\ kept[i] = "kept" /\ kept[j] = "kept" /\ i # j
         /\ google_contacts[i].resourceName.t = "absent"
         /\ google_contacts[j].resourceName.t = "absent")
        => /\ RecordOf(i).id # RecordOf(j).id
           /\ RecordOf(i).id # <<>>

(***************************************************************************)
(* Concurrent requests and the cache entry (Spec)                          *)
(***************************************************************************)
\* the entry one call of cache_contacts writes for records cs at time t
EntryOf(cs, t) ==
    [present |-> TRUE, value |-> JsonDumps(CacheData(cs, t)),
     expires_at |-> t + CACHE_TTL]

\* the step is the arrival of a usable upstream response in slot r
FetchSucceeds(r) == req[r].pc = "upstream" /\ req'[r].pc = "done"

\* C22: a fetch_contacts call that misses the cache goes upstream even while
\* another call for the same owner is waiting for its response; each call
\* returns the normalized result of its own response; and the owner's entry
\* is at every moment exactly the complete entry one call wrote (records,
\* timestamp and lifetime of the same write), never a mixture.
C22_LastWriteWins ==
    /\ [](\A u \in Owners :
             Fresh(CacheKey(u)) =>
                 /\ last_cached[CacheKey(u)].has
                 /\ store[CacheKey(u)] = EntryOf(last_cached[CacheKey(u)].contacts,
                                                 last_cached[CacheKey(u)].at))
    /\ [][/\ \A r \in Reqs, u \in Owners :
                (/\ StartsFetch(r, u)
                 /\ GetCachedContacts(u, redis_client, redisUp, store, now).value = <<>>)
                => req'[r].pc = "upstream" /\ req'[r].called
          /\ \A r \in Reqs :
                FetchSucceeds(r) =>
                    LET cs == TransformContacts(DataGet(req'[r].response)) IN
                    /\ req'[r].result = Return(cs)
                    /\ redisUp =>
                          /\ store'[CacheKey(req[r].user_id)] = EntryOf(cs, now)
                          /\ last_cached'[CacheKey(req[r].user_id)] = Cached(cs, now)]_vars

\* two calls for one owner both missed the cache and went upstream; the
\* first has returned its own records and written the entry, the second is
\* still waiting and will overwrite it
C22_Witness ==
    \E r1, r2 \in Reqs :
        /\ r1 # r2
        /\ req[r1].user_id = req[r2].user_id
        /\ DoneFetch(r1) /\ req[r1].called
        /\ req[r1].result.kind = "return" /\ req[r1].result.contacts # <<>>
        /\ req[r2].op = "fetch_contacts" /\ req[r2].pc = "upstream" /\ req[r2].called
        /\ Fresh(CacheKey(req[r1].user_id))
        /\ EntryRecords(CacheKey(req[r1].user_id)) = req[r1].result.contacts

\* the step is a step of a request in slot r
Acts(r) == req'[r] # req[r] /\ req'[r].op # "idle"

\* the step ends a read of the cache in slot r that found records
ServedFromCache(r) ==
    /\ Acts(r) /\ ~FetchSucceeds(r)
    /\ req'[r].op \in {"fetch_contacts", "get_cached_contacts"}
    /\ req'[r].pc = "done"
    /\ req'[r].result.kind = "return" /\ req'[r].result.contacts # <<>>

\* C23: a step of a request for owner A leaves the entry of every other
\* owner as it was (records and expiry), and records it returns from the
\* cache are those of A's own entry.
C23_OwnerIsolation ==
    [][\A r \in Reqs :
          Acts(r) =>
              LET a == req'[r].user_id IN
              /\ \A b \in Owners \ {a} :
                    /\ store'[CacheKey(b)] = store[CacheKey(b)]
                    /\ last_cached'[CacheKey(b)] = last_cached[CacheKey(b)]
              /\ ServedFromCache(r) =>
                    /\ Fresh(CacheKey(a))
                    /\ req'[r].result.contacts = EntryRecords(CacheKey(a))]_vars

\* a request for one owner has been served from the cache while the other
\* owner's entry holds different records
C23_Witness ==
    \E r \in Reqs, b \in Owners :
        /\ DoneFetch(r) /\ ~req[r].called
        /\ req[r].result.kind = "return" /\ req[r].result.contacts # <<>>
        /\ b # req[r].user_id
        /\ Fresh(CacheKey(b))
        /\ EntryRecords(CacheKey(b)) # req[r].result.contacts

\* C26: a fetch_contacts call served from the cache (any cache check), a
\* get_cached_contacts call, and a fetch_contacts call whose upstream fetch
\* fails leave the owner's entry as it was: records, creation timestamp and
\* expiry.
C26_ReadsLeaveEntry ==
    [][\A r \in Reqs :
          (/\ Acts(r) /\ ~FetchSucceeds(r)
           /\ req'[r].op \in {"fetch_contacts", "get_cached_contacts"})
          => /\ store' = store
             /\ last_cached' = last_cached]_vars

\* a call served from the cache some time after the entry was written: the
\* entry still carries the timestamp and the expiry of its write
C26_Witness ==
    \E r \in Reqs :
        /\ DoneFetch(r) /\ ~req[r].called
        /\ req[r].result.kind = "return" /\ req[r].result.contacts # <<>>
        /\ Fresh(CacheKey(req[r].user_id))
        /\ store[CacheKey(req[r].user_id)].value.doc.cached_at < now
        /\ store[CacheKey(req[r].user_id)].expires_at
              = store[CacheKey(req[r].user_id)].value.doc.cached_at + CACHE_TTL

\* the step makes a call of the Cache Layer in slot r
CacheOp(r) == Acts(r) /\ ~(req[r].pc = "upstream" /\ req'[r].pc = "fallback")

\* C27: a cache operation that cannot connect leaves the client handle
\* absent, and the next one connects when Redis is reachable; with Redis
\* reachable a successful fetch_contacts writes the entry, and the next call
\* within its lifetime is served from the cache without an upstream call.
C27_CacheRecovers ==
    [][/\ \A r \in Reqs :
             CacheOp(r) =>
                 /\ (redis_client = "None" /\ ~redisUp) => redis_client' = "None"
                 /\ (redis_client = "None" /\ redisUp) => redis_client' = "Client"
       /\ \A r \in Reqs :
             (FetchSucceeds(r) /\ redisUp) =>
                 /\ store'[CacheKey(req[r].user_id)]
                       = EntryOf(req'[r].result.contacts, now)
                 /\ last_cached'[CacheKey(req[r].user_id)]
                       = Cached(req'[r].result.contacts, now)
       /\ \A r \in Reqs, u \in Owners :
             (StartsFetch(r, u) /\ WithinTtl(u))
             => /\ req'[r].pc = "done" /\ ~req'[r].called
                /\ req'[r].result = Return(last_cached[CacheKey(u)].contacts)]_vars

\* C27 for a fetch that yields at least one record: the same, the call after
\* the write being served from the cache
C27_RecoversNonEmpty ==
    [][/\ \A r \in Reqs :
             CacheOp(r) =>
                 /\ (redis_client = "None" /\ ~redisUp) => redis_client' = "None"
                 /\ (redis_client = "None" /\ redisUp) => redis_client' = "Client"
       /\ \A r \in Reqs :
             (FetchSucceeds(r) /\ redisUp) =>
                 store'[CacheKey(req[r].user_id)]
                     = EntryOf(req'[r].result.contacts, now)
       /\ \A r \in Reqs, u \in Owners :
             (/\ StartsFetch(r, u) /\ WithinTtl(u)
              /\ last_cached[CacheKey(u)].contacts # <<>>)
             => /\ req'[r].pc = "done" /\ ~req'[r].called
                /\ req'[r].result = Return(last_cached[CacheKey(u)].contacts)]_vars

(***************************************************************************)
(* Authentication in front of the cache (SpecRoute)                        *)
(***************************************************************************)
\* the step is a handler of slot r raising before any call of the service
Denies(r, why) == http'[r] # http[r] /\ http'[r].stage = "done" /\ http'[r].denied = why

\* the step leaves the service, the cache and every request record alone
NothingTouched == UNCHANGED <<redis_client, store, req, last_cached>>

\* C21: on each of the three contacts routes a bearer token that fails
\* verification is answered with status 401, and the step performs no cache
\* read, no cache delete and no upstream fetch.
C21_InvalidTokenIs401 ==
    [][\A r \in Reqs :
          Denies(r, "invalid_token") =>
              /\ http'[r].status = 401
              /\ NothingTouched]_vars

\* C21 as the routes have it: an invalid token never reaches the service or
\* the cache; GET /google answers 401, GET /cached and DELETE /cache 500
C21_InvalidTokenRejected ==
    [][\A r \in Reqs :
          Denies(r, "invalid_token") =>
              /\ NothingTouched
              /\ http'[r].status = IF http'[r].route = "google" THEN 401 ELSE 500]_vars

\* C28: on GET /google nothing of the service runs while the handler waits
\* for the Google access token; without a token the answer is 401 and the
\* cache is not read, whatever it holds; and fetch_contacts, the only source
\* of the route's records, starts only in the step that obtained a token.
C28_TokenBeforeCache ==
    /\ [](\A r \in Reqs : http[r].stage = "token" => req[r] = Idle)
    /\ [][\A r \in Reqs :
             /\ (http[r].stage = "token" /\ http'[r].stage # "token"
                 /\ http'[r].access_token = NoToken)
                => /\ Denies(r, "no_access_token")
                   /\ http'[r].status = 401
                   /\ NothingTouched
             /\ (req[r].op = "idle" /\ req'[r].op = "fetch_contacts")
                => /\ http[r].stage = "token"
                   /\ http'[r].access_token # NoToken
                   /\ req'[r].user_id = http[r].sub
             /\ (http'[r] # http[r] /\ http'[r].route = "google"
                 /\ http'[r].status = 200)
                => /\ http[r].access_token # NoToken
                   /\ req[r].op = "fetch_contacts"]_vars

\* GET /google has answered 401 for want of an access token while the
\* owner's entry was live and non-empty and Redis reachable; the other
\* handler has never run, so the entry was there before this request
C28_Witness ==
    \E r \in Reqs :
        /\ http[r].stage = "done" /\ http[r].route = "google"
        /\ http[r].denied = "no_access_token" /\ http[r].status = 401
        /\ \A q \in Reqs \ {r} : http[q] = HttpIdle
        /\ redisUp /\ redis_client = "Client"
        /\ Fresh(CacheKey(http[r].sub))
        /\ EntryRecords(CacheKey(http[r].sub)) # <<>>

====
